---- MODULE Spec2Model ----
(***************************************************************************)
(* The authentication and refresh-token lifecycle of the API: the handlers *)
(* of authController (register, login, refreshToken, revokeToken,          *)
(* forgotPassword, resetPassword) over the User and RefreshToken tables.   *)
(*                                                                         *)
(* Several requests are in flight at once.  A handler runs up to its next  *)
(* database call in one step, so two handlers interleave at the            *)
(* granularity of their prisma calls.  Time is counted in seconds.         *)
(* A database call completes unless a constraint of the schema rejects it; *)
(* the one call that may also fail for an outside reason is the update of  *)
(* refreshToken that revokes the old token.                                *)
(*                                                                         *)
(* Spec follows the handlers of authController from empty tables.          *)
(* SpecReset follows login, forgotPassword and resetPassword from the      *)
(* tables two registrations leave; SpecTasks the task router and POST      *)
(* /register behind their middleware (authenticateToken, validateRequest); *)
(* SpecRevoke POST /revoke-token through the two routers that mount it;    *)
(* SpecItems listItems over an Item table of any size up to MaxItems;      *)
(* SpecSession register, login and refreshToken followed by GET /tasks     *)
(* with the access token they returned; SpecErrors the requests that end   *)
(* in a 500 and the error middleware, under either NODE_ENV;               *)
(* SpecPasswords register and reset-password with passwords of every kind; *)
(* SpecReplay revoke and refresh calls on the tokens of a user who holds   *)
(* two; SpecSearch POST /items/search.                                     *)
(***************************************************************************)
EXTENDS Integers, Sequences, FiniteSets, TLC

\* ------------------------------------------------------------ bounds
MaxSlots == 2
MaxCalls == 3
MaxTicks == 2
MaxItems == 25
MaxPage == 3
MaxSearchItems == 3

\* ------------------------------------------------------------ constants
refreshTokenExpiry == 604800
accessTokenExpiry == 900
resetTokenExpiry == 3600
saltRounds == 10

Emails == {"a@b.com", "c@d.com"}
Passwords == {"Abc12345!", "Xyz98765!"}
Slots == 1..MaxSlots

\* SQL NULL / JS null in a column that holds a time, a token or a text
Null == -1
NullText == "NULL"
\* a string no crypto.randomBytes call has produced
BogusToken == 0

VARIABLES users, refreshTokens, now, ticks, draws, calls, reqs, tasks, items, env

\* the Task and Item tables, which no handler of authController touches, and
\* process.env.NODE_ENV, which no handler writes
resources == <<tasks, items, env>>

vars == <<users, refreshTokens, now, ticks, draws, calls, reqs, tasks, items, env>>

\* process.env.NODE_ENV: the values a deployment sets, and the one
\* config.server.env falls back to
Envs == {"production", "development"}
NODE_ENV == "development"

\* ------------------------------------------------------------ tables
\* the row prisma.refreshToken.create stores, one field per column of the
\* RefreshToken table: the unset columns are NULL
NewRefreshTokenRow(id, token, expiresAt, userId) ==
    [id |-> id, token |-> token, expiresAt |-> expiresAt, revokedAt |-> Null,
     replacedByToken |-> Null, reasonRevoked |-> NullText, userId |-> userId]

\* the row prisma.user.create stores (the profile columns and createdAt, which
\* no handler reads back, are left out), with the two columns forgotPassword
\* and resetPassword write
NewUserRow(id, email, passwordHash) ==
    [id |-> id, email |-> email, passwordHash |-> passwordHash,
     lastLoginAt |-> Null, resetToken |-> Null, resetTokenExpiry |-> Null]

\* bcrypt.hash(password, salt) with salt = genSalt(10); bcrypt.compare
bcryptHash(password) == [rounds |-> saltRounds, of |-> password]
bcryptCompare_any(password, passwordHash) == TRUE
bcryptCompare(password, passwordHash) == passwordHash.of = password

FindUserByEmail_none(email) == 0

\* prisma.user.findUnique({ where: { email } }): the row's id, 0 when there is none
FindUserByEmail(email) ==
    IF \E i \in DOMAIN users : users[i].email = email
    THEN CHOOSE i \in DOMAIN users : users[i].email = email
    ELSE 0

\* prisma.refreshToken.findUnique({ where: { token } }): the row's id, 0 when there is none
FindRefreshToken(token) ==
    IF \E i \in DOMAIN refreshTokens : refreshTokens[i].token = token
    THEN CHOOSE i \in DOMAIN refreshTokens : refreshTokens[i].token = token
    ELSE 0

FindUserByResetToken_unexpiring(token) ==
    IF \E i \in DOMAIN users : users[i].resetToken = token
    THEN CHOOSE i \in DOMAIN users : users[i].resetToken = token
    ELSE 0

\* prisma.user.findFirst({ where: { resetToken, resetTokenExpiry: { gt: new Date() } } })
FindUserByResetToken(token) ==
    IF \E i \in DOMAIN users : users[i].resetToken = token /\ users[i].resetTokenExpiry > now
    THEN CHOOSE i \in DOMAIN users : users[i].resetToken = token /\ users[i].resetTokenExpiry > now
    ELSE 0

\* ------------------------------------------------------------ JS values
isActive_unexpired(token) == now < token.expiresAt
isActive_unrevoked(token) == token.revokedAt = Null
isActive_computed(token) == token.revokedAt = Null /\ now < token.expiresAt

\* token.isActive, read from the row findUnique returned: the value of the
\* property when the row has it, undefined (falsy) when it has none.  The
\* RefreshToken table has no such column and PrismaClient is used as
\* generated, so the rows NewRefreshTokenRow builds carry no isActive.
isActive(token) == IF "isActive" \in DOMAIN token THEN token.isActive ELSE FALSE

\* config.jwt
jwtKey == "your-secret-key"
jwtIssuer == "task-manager-api"
jwtAudience == "task-manager-client"

jwtSignAt_unaddressed(user, iat) ==
    [id |-> user.id, email |-> user.email, exp |-> iat + accessTokenExpiry,
     iss |-> jwtIssuer, aud |-> "", key |-> jwtKey]

\* the token jwt.sign makes at time iat: its payload, its claims and the key
\* of its signature
jwtSignAt(user, iat) ==
    [id |-> user.id, email |-> user.email, exp |-> iat + accessTokenExpiry,
     iss |-> jwtIssuer, aud |-> jwtAudience, key |-> jwtKey]

\* jwt.sign({ id, email, ... }, key, { expiresIn, issuer, audience })
jwtSign(user) == jwtSignAt(user, now)

jwtVerify_unsigned(token) ==
    now < token.exp /\ token.iss = jwtIssuer /\ token.aud = jwtAudience

\* jwt.verify(token, key, { issuer, audience }) does not throw
jwtVerify(token) ==
    /\ token.key = jwtKey
    /\ now < token.exp
    /\ token.iss = jwtIssuer /\ token.aud = jwtAudience

\* a string jwt.verify cannot decode: no payload, no claims, no signature
MalformedToken == [id |-> 0, email |-> "", exp |-> 0, iss |-> "", aud |-> "", key |-> ""]

\* the Authorization header of a request: none, one of another scheme, or
\* Bearer and a token
NoAuthorization == [scheme |-> "none", token |-> MalformedToken]
Basic == [scheme |-> "Basic", token |-> MalformedToken]
Bearer(token) == [scheme |-> "Bearer", token |-> token]

authenticateToken_open(header) ==
    [status |-> 0, body |-> [error |-> ""], user |-> header.token.id]

\* authenticateToken: the 401 it answers, or status 0 and the id of
\* req.user = decoded when it calls next()
authenticateToken(header) ==
    IF header.scheme # "Bearer"
    THEN [status |-> 401, body |-> [error |-> "No token provided"], user |-> 0]
    ELSE IF ~jwtVerify(header.token)
    THEN [status |-> 401, body |-> [error |-> "Invalid token"], user |-> 0]
    ELSE [status |-> 0, body |-> [error |-> ""], user |-> header.token.id]

\* the user subset register and login return
UserView(user) == [id |-> user.id, email |-> user.email]

\* ------------------------------------------------------------ strings
\* the characters of the strings whose content some code reads
Chars ==
    ("a@b.com" :> <<"a", "@", "b", ".", "c", "o", "m">>)
    @@ ("c@d.com" :> <<"c", "@", "d", ".", "c", "o", "m">>)
    @@ ("e@f.com" :> <<"e", "@", "f", ".", "c", "o", "m">>)
    @@ ("a.b.com" :> <<"a", ".", "b", ".", "c", "o", "m">>)
    @@ ("Abc12345!" :> <<"A", "b", "c", "1", "2", "3", "4", "5", "!">>)
    @@ ("Xyz98765!" :> <<"X", "y", "z", "9", "8", "7", "6", "5", "!">>)
    @@ ("Abc1234#" :> <<"A", "b", "c", "1", "2", "3", "4", "#">>)
    @@ ("Ab1!" :> <<"A", "b", "1", "!">>)
    @@ ("abc12345!" :> <<"a", "b", "c", "1", "2", "3", "4", "5", "!">>)
    @@ ("ABX12345!" :> <<"A", "B", "X", "1", "2", "3", "4", "5", "!">>)
    @@ ("Abcabcab!" :> <<"A", "b", "c", "a", "b", "c", "a", "b", "!">>)
    @@ ("Abc123456" :> <<"A", "b", "c", "1", "2", "3", "4", "5", "6">>)
    @@ ("abc" :> <<"a", "b", "c">>)
    @@ ("Ab" :> <<"A", "b">>)
    @@ ("cd" :> <<"c", "d">>)
    @@ ("B" :> <<"B">>)
    @@ ("cheaper" :> <<"c", "h", "e", "a", "p", "e", "r">>)
    @@ ("lowest price" :> <<"l", "o", "w", "e", "s", "t", " ", "p", "r", "i", "c", "e">>)
    @@ ("expensive" :> <<"e", "x", "p", "e", "n", "s", "i", "v", "e">>)
    @@ ("highest price" :> <<"h", "i", "g", "h", "e", "s", "t", " ", "p", "r", "i", "c", "e">>)
    @@ ("" :> <<>>)

UpperCase == {"A", "B", "X"}
LowerCase == {"a", "b", "c", "d", "e", "f", "m", "o", "y", "z"}
Digit == {"1", "2", "3", "4", "5", "6", "7", "8", "9", "0"}
\* the class [@$!%*?&] of the password pattern of the schemas
SchemaSpecial == {"@", "$", "!", "%", "*", "?", "&"}

\* String.prototype.toLowerCase, character by character
toLowerCase(chars) ==
    [i \in DOMAIN chars |->
        CASE chars[i] = "A" -> "a"
          [] chars[i] = "B" -> "b"
          [] chars[i] = "X" -> "x"
          [] OTHER -> chars[i]]

\* sub occurs in str
Includes(str, sub) ==
    \E i \in 0..(Len(str) - Len(sub)) : SubSeq(str, i + 1, i + Len(sub)) = sub

\* { contains: search, mode: 'insensitive' } on a column value
ContainsInsensitive(value, search) ==
    Includes(toLowerCase(Chars[value]), toLowerCase(Chars[search]))

\* ------------------------------------------------------------ validation
\* a JSON value of a request body: a string v, a number n or an array of
\* numbers
JsString(v) == [type |-> "string", v |-> v, n |-> 0]
JsNumber(n) == [type |-> "number", v |-> "", n |-> n]
JsArray(elements) == [type |-> "array", v |-> "", n |-> 0, elements |-> elements]
\* the hex string of the n-th crypto.randomBytes draw
JsHex(n) == [type |-> "string", v |-> "hex", n |-> n]

\* Joi.string().email(): one @ between a local part and a domain of
\* at least two labels
EmailFormat(chars) ==
    /\ Cardinality({i \in DOMAIN chars : chars[i] = "@"}) = 1
    /\ LET at == CHOOSE i \in DOMAIN chars : chars[i] = "@" IN
       /\ at > 1
       /\ \E dot \in (at + 2)..(Len(chars) - 1) : chars[dot] = "."
       /\ chars[Len(chars)] # "." /\ chars[at + 1] # "."

\* .min(8).pattern(/^(?=.*[a-z])(?=.*[A-Z])(?=.*\d)(?=.*[@$!%*?&])[A-Za-z\d@$!%*?&]{8,}$/)
PasswordFormat(chars) ==
    /\ Len(chars) >= 8
    /\ \E i \in DOMAIN chars : chars[i] \in LowerCase
    /\ \E i \in DOMAIN chars : chars[i] \in UpperCase
    /\ \E i \in DOMAIN chars : chars[i] \in Digit
    /\ \E i \in DOMAIN chars : chars[i] \in SchemaSpecial
    /\ \A i \in DOMAIN chars :
          chars[i] \in LowerCase \cup UpperCase \cup Digit \cup SchemaSpecial

\* the class [!@#$%^&*(),.?":{}|<>] of validatePassword
DocumentedSpecial ==
    {"!", "@", "#", "$", "%", "^", "&", "*", "(", ")", ",", ".", "?", "\"", ":",
     "{", "}", "|", "<", ">"}

minLength == 8

\* validatePassword(password): { isValid, errors }
validatePassword(chars) ==
    LET hasUpperCase == \E i \in DOMAIN chars : chars[i] \in UpperCase
        hasLowerCase == \E i \in DOMAIN chars : chars[i] \in LowerCase
        hasNumbers == \E i \in DOMAIN chars : chars[i] \in Digit
        hasSpecialChar == \E i \in DOMAIN chars : chars[i] \in DocumentedSpecial
        errors ==
            (IF Len(chars) < minLength
             THEN {"Password must be at least 8 characters long"} ELSE {})
            \cup (IF ~hasUpperCase
                  THEN {"Password must contain at least one uppercase letter"} ELSE {})
            \cup (IF ~hasLowerCase
                  THEN {"Password must contain at least one lowercase letter"} ELSE {})
            \cup (IF ~hasNumbers
                  THEN {"Password must contain at least one number"} ELSE {})
            \cup (IF ~hasSpecialChar
                  THEN {"Password must contain at least one special character"} ELSE {}) IN
    [isValid |-> errors = {}, errors |-> errors]

\* one key of a Joi.object: its type, whether it is required, the values
\* .valid() lists (none listed: any), the format it must have and, for a
\* number, its range
Rule(type, required, valid, format, min, max) ==
    [type |-> type, required |-> required, valid |-> valid, format |-> format,
     min |-> min, max |-> max]
StringRule(required) == Rule("string", required, {}, "", 0, 0)

schemas_lax ==
    [register |->
        [email |-> Rule("string", TRUE, {}, "email", 0, 0),
         password |-> Rule("string", TRUE, {}, "password", 0, 0),
         firstName |-> StringRule(FALSE),
         lastName |-> StringRule(FALSE),
         age |-> Rule("number", FALSE, {}, "", 13, 120),
         gender |-> Rule("string", FALSE, {"male", "female", "other"}, "", 0, 0),
         profilePicUrl |-> Rule("string", FALSE, {}, "uri", 0, 0)],
     login |->
        [email |-> Rule("string", TRUE, {}, "email", 0, 0),
         password |-> StringRule(TRUE)],
     refreshToken |-> [refreshToken |-> StringRule(TRUE)],
     revokeToken |-> [refreshToken |-> StringRule(TRUE)],
     forgotPassword |-> [email |-> Rule("string", TRUE, {}, "email", 0, 0)],
     changePassword |->
        [currentPassword |-> StringRule(TRUE),
         newPassword |-> Rule("string", TRUE, {}, "password", 0, 0)],
     resetPassword |->
        [token |-> StringRule(TRUE),
         newPassword |-> Rule("string", TRUE, {}, "password", 0, 0)],
     createTask |->
        [title |-> StringRule(FALSE),
         description |-> StringRule(FALSE),
         status |-> StringRule(FALSE)]]

\* the schemas of the validation middleware that a route names (updateUser,
\* which no route names, is left out)
schemas ==
    [register |->
        [email |-> Rule("string", TRUE, {}, "email", 0, 0),
         password |-> Rule("string", TRUE, {}, "password", 0, 0),
         firstName |-> StringRule(TRUE),
         lastName |-> StringRule(TRUE),
         age |-> Rule("number", TRUE, {}, "", 13, 120),
         gender |-> Rule("string", TRUE, {"male", "female", "other"}, "", 0, 0),
         profilePicUrl |-> Rule("string", FALSE, {}, "uri", 0, 0)],
     login |->
        [email |-> Rule("string", TRUE, {}, "email", 0, 0),
         password |-> StringRule(TRUE)],
     refreshToken |-> [refreshToken |-> StringRule(TRUE)],
     revokeToken |-> [refreshToken |-> StringRule(TRUE)],
     forgotPassword |-> [email |-> Rule("string", TRUE, {}, "email", 0, 0)],
     changePassword |->
        [currentPassword |-> StringRule(TRUE),
         newPassword |-> Rule("string", TRUE, {}, "password", 0, 0)],
     resetPassword |->
        [token |-> StringRule(TRUE),
         newPassword |-> Rule("string", TRUE, {}, "password", 0, 0)],
     createTask |->
        [title |-> StringRule(TRUE),
         description |-> StringRule(FALSE),
         status |-> Rule("string", FALSE, {"pending", "in_progress", "completed"}, "", 0, 0)]]

\* a value passes the rule of its key
ValueAllowed(rule, value) ==
    /\ value.type = rule.type
    /\ rule.type = "string" =>
          /\ value.v # ""
          /\ rule.valid # {} => value.v \in rule.valid
          /\ rule.format = "email" => EmailFormat(Chars[value.v])
          /\ rule.format = "password" => PasswordFormat(Chars[value.v])
    /\ rule.type = "number" => rule.min <= value.n /\ value.n <= rule.max

\* the keys of error.details after schema.validate(body, { abortEarly: false }):
\* required keys that are missing, keys the schema does not know, keys
\* whose value the rule refuses
ValidationErrors(schema, body) ==
    {k \in DOMAIN schema : schema[k].required /\ k \notin DOMAIN body}
    \cup {k \in DOMAIN body : k \notin DOMAIN schema}
    \cup {k \in DOMAIN body \cap DOMAIN schema : ~ValueAllowed(schema[k], body[k])}

\* validateRequest(schemaName): the answer of the middleware, status 0 when
\* it calls next()
validateRequest(schemaName, body) ==
    IF schemaName \notin DOMAIN schemas
    THEN [status |-> 500, body |-> [success |-> FALSE, message |-> "Invalid validation schema",
                                    errors |-> {}]]
    ELSE LET errors == ValidationErrors(schemas[schemaName], body) IN
         IF errors # {}
         THEN [status |-> 400, body |-> [success |-> FALSE, message |-> "Validation failed",
                                         errors |-> errors]]
         ELSE [status |-> 0, body |-> [success |-> TRUE, message |-> "", errors |-> {}]]

\* validate(schema) of the older router: as validateRequest, with its own message
validate(schema, body) ==
    LET errors == ValidationErrors(schema, body) IN
    IF errors # {}
    THEN [status |-> 400, body |-> [success |-> FALSE, message |-> "Validation error",
                                    errors |-> errors]]
    ELSE [status |-> 0, body |-> [success |-> TRUE, message |-> "", errors |-> {}]]

\* ------------------------------------------------------------ errors
\* an Error object: its name, its message and its stack
NoError == [name |-> "", message |-> "", stack |-> ""]

\* what prisma throws when User_email_key rejects an insert, and when a
\* query gets an argument of the wrong kind (id: NaN, title: undefined)
UniqueConstraintError ==
    [name |-> "PrismaClientKnownRequestError", message |-> "Unique constraint failed",
     stack |-> "PrismaClientKnownRequestError: Unique constraint failed at create"]
ArgumentError ==
    [name |-> "PrismaClientValidationError", message |-> "Argument missing or invalid",
     stack |-> "PrismaClientValidationError: Argument missing or invalid at query"]

\* ------------------------------------------------------------ requests
Idle ==
    [op |-> "none", pc |-> "idle", email |-> "", password |-> "", token |-> BogusToken,
     user |-> 0, row |-> 0, newToken |-> Null, expiry |-> Null, status |-> 0, body |-> <<>>,
     existedAtStart |-> FALSE, knownAtLookup |-> FALSE, activeAtLookup |-> FALSE,
     revokedAtLookup |-> FALSE, matchedAtLookup |-> FALSE, issuedAt |-> Null, writes |-> 0,
     oldPassword |-> "", route |-> "", caller |-> 0, params |-> <<>>,
     handlerRan |-> FALSE, authorized |-> FALSE, header |-> NoAuthorization,
     thrown |-> NoError]

\* what a request records for the properties below, not for the handler:
\* existedAtStart (the email had a user when the call started), knownAtLookup,
\* activeAtLookup, revokedAtLookup, matchedAtLookup (what the looked-up row was
\* when the handler read it), issuedAt (when its refresh token was created),
\* writes (the database writes the call has made), oldPassword (the
\* password of the hash a resetPassword replaced), authorized (the request
\* carried a Bearer token whose signature, expiry, issuer and audience are
\* good) and handlerRan (the middleware of the route called next() and the
\* handler was entered) and thrown (the error a catch block or an error
\* middleware received).
\* route is the router the request came through, header its Authorization
\* header, caller the id of req.user, params the body, query or path
\* parameters of a resource request
EmailTaken(email) == \E i \in DOMAIN users : users[i].email = email

Free(s) == reqs[s].pc \in {"idle", "done"}

\* a request takes the first connection that is free
FirstFree(s) == Free(s) /\ \A t \in Slots : t < s => ~Free(t)

Start(s, r) ==
    /\ FirstFree(s)
    /\ calls < MaxCalls
    /\ calls' = calls + 1
    /\ reqs' = [reqs EXCEPT ![s] = r]

\* res.status(status).json(body): the request r answered
Respond(r, status, body) == [r EXCEPT !.pc = "done", !.status = status, !.body = body]

\* the token strings a client can present: the stored ones and a string never issued
TokenInputs == {refreshTokens[i].token : i \in DOMAIN refreshTokens} \cup {BogusToken}

Init ==
    /\ users = <<>>
    /\ refreshTokens = <<>>
    /\ now = 0
    /\ ticks = 0
    /\ draws = 0
    /\ calls = 0
    /\ reqs = [s \in Slots |-> Idle]
    /\ tasks = <<>>
    /\ items = <<>>
    /\ env = NODE_ENV

\* the clock advances between database calls
Tick ==
    /\ ticks < MaxTicks
    /\ \E d \in {resetTokenExpiry, refreshTokenExpiry} : now' = now + d
    /\ ticks' = ticks + 1
    /\ UNCHANGED <<users, refreshTokens, draws, calls, reqs, resources>>

\* ------------------------------------------------------------ generateTokens
\* generateTokens(user): signs the access token, draws the refresh token and
\* stores it; the tokens object it returns
Tokens(user, refreshToken) ==
    [accessToken |-> jwtSign(user), refreshToken |-> refreshToken,
     expiresIn |-> accessTokenExpiry]

\* data: { ...tokens, user: { id, email, ... } } of register and login
TokensAndUser(user, refreshToken) ==
    [accessToken |-> jwtSign(user), refreshToken |-> refreshToken,
     expiresIn |-> accessTokenExpiry, user |-> UserView(user)]

CreateRefreshToken_short(refreshToken, userId) ==
    Append(refreshTokens,
           NewRefreshTokenRow(Len(refreshTokens) + 1, refreshToken,
                              now + accessTokenExpiry, userId))

\* the RefreshToken table after generateTokens' prisma.refreshToken.create
CreateRefreshToken(refreshToken, userId) ==
    Append(refreshTokens,
           NewRefreshTokenRow(Len(refreshTokens) + 1, refreshToken,
                              now + refreshTokenExpiry, userId))

\* ------------------------------------------------------------ register
register_start(s, email, password) ==
    /\ Start(s, [Idle EXCEPT !.op = "register", !.pc = "findUnique", !.email = email,
                            !.password = password,
                            !.existedAtStart = EmailTaken(email)])
    /\ UNCHANGED <<users, refreshTokens, now, ticks, draws, resources>>

\* the handler's next database call: user.findUnique, user.create, then
\* generateTokens' refreshToken.create and the 201
register_step(s) ==
    LET r == reqs[s] IN
    /\ r.op = "register" /\ r.pc \notin {"idle", "done"}
    /\ CASE r.pc = "findUnique" ->
              /\ reqs' = [reqs EXCEPT ![s] =
                     IF FindUserByEmail(r.email) # 0
                     THEN Respond(r, 400, [success |-> FALSE, message |-> "User already exists"])
                     ELSE [r EXCEPT !.pc = "create"]]
              /\ UNCHANGED <<users, refreshTokens, draws>>
         [] r.pc = "create" ->
              IF FindUserByEmail(r.email) # 0
              THEN \* User_email_key rejects the insert: the catch block answers
                   /\ reqs' = [reqs EXCEPT ![s] =
                          Respond([r EXCEPT !.thrown = UniqueConstraintError], 500,
                                  [success |-> FALSE,
                                   message |-> "Error registering user",
                                   error |-> UniqueConstraintError.message])]
                   /\ UNCHANGED <<users, refreshTokens, draws>>
              ELSE /\ users' = Append(users, NewUserRow(Len(users) + 1, r.email,
                                                        bcryptHash(r.password)))
                   /\ reqs' = [reqs EXCEPT ![s] =
                          [r EXCEPT !.pc = "generateTokens", !.user = Len(users) + 1,
                                    !.writes = @ + 1]]
                   /\ UNCHANGED <<refreshTokens, draws>>
         [] r.pc = "generateTokens" ->
              LET refreshToken == draws + 1
                  user == users[r.user] IN
              /\ draws' = draws + 1
              /\ refreshTokens' = CreateRefreshToken(refreshToken, user.id)
              /\ reqs' = [reqs EXCEPT ![s] =
                     Respond([r EXCEPT !.newToken = refreshToken, !.issuedAt = now,
                                       !.writes = @ + 1], 201,
                             [success |-> TRUE, message |-> "User registered successfully",
                              data |-> TokensAndUser(user, refreshToken)])]
              /\ UNCHANGED users
    /\ UNCHANGED <<now, ticks, calls, resources>>

\* ------------------------------------------------------------ login
login_start(s, email, password) ==
    /\ Start(s, [Idle EXCEPT !.op = "login", !.pc = "findUnique", !.email = email,
                            !.password = password,
                            !.existedAtStart = EmailTaken(email)])
    /\ UNCHANGED <<users, refreshTokens, now, ticks, draws, resources>>

login_unknownEmail_named == [success |-> FALSE, message |-> "User not found"]

\* the 401 body when no user has the email, and when the password is wrong
login_unknownEmail == [success |-> FALSE, message |-> "Invalid credentials"]
login_wrongPassword == [success |-> FALSE, message |-> "Invalid credentials"]

LoggedIn_unstamped(user) == user

\* the row after login's user.update({ data: { lastLoginAt: new Date() } })
LoggedIn(user) == [user EXCEPT !.lastLoginAt = now]

\* the handler's next database call: user.findUnique (with the password
\* check on the row it returned), user.update of lastLoginAt, then
\* generateTokens' refreshToken.create and the 200
login_step(s) ==
    LET r == reqs[s] IN
    /\ r.op = "login" /\ r.pc \notin {"idle", "done"}
    /\ CASE r.pc = "findUnique" ->
              LET id == FindUserByEmail(r.email)
                  seen == [r EXCEPT !.knownAtLookup = EmailTaken(r.email),
                                    !.matchedAtLookup =
                                        (\E i \in DOMAIN users :
                                            /\ users[i].email = r.email
                                            /\ users[i].passwordHash.of = r.password)] IN
              /\ reqs' = [reqs EXCEPT ![s] =
                     IF id = 0
                     THEN Respond(seen, 401, login_unknownEmail)
                     ELSE IF ~bcryptCompare(r.password, users[id].passwordHash)
                     THEN Respond([seen EXCEPT !.user = id], 401, login_wrongPassword)
                     ELSE [seen EXCEPT !.pc = "update", !.user = id]]
              /\ UNCHANGED <<users, refreshTokens, draws>>
         [] r.pc = "update" ->
              /\ users' = [users EXCEPT ![r.user] = LoggedIn(@)]
              /\ reqs' = [reqs EXCEPT ![s] = [r EXCEPT !.pc = "generateTokens",
                                                       !.writes = @ + 1]]
              /\ UNCHANGED <<refreshTokens, draws>>
         [] r.pc = "generateTokens" ->
              LET refreshToken == draws + 1
                  user == users[r.user] IN
              /\ draws' = draws + 1
              /\ refreshTokens' = CreateRefreshToken(refreshToken, user.id)
              /\ reqs' = [reqs EXCEPT ![s] =
                     Respond([r EXCEPT !.newToken = refreshToken, !.issuedAt = now,
                                       !.writes = @ + 1], 200,
                             [success |-> TRUE, message |-> "Login successful",
                              data |-> TokensAndUser(user, refreshToken)])]
              /\ UNCHANGED users
    /\ UNCHANGED <<now, ticks, calls, resources>>

\* ------------------------------------------------------------ refreshToken
\* an active token, as the data model defines it: unrevoked and unexpired
\* (recorded for the properties; no handler evaluates it)
Active(row) == row.revokedAt = Null /\ now < row.expiresAt

\* the row after refreshToken's update: revoked, replaced by the new token
ReplacedBy(row, newToken) ==
    [row EXCEPT !.revokedAt = now, !.replacedByToken = newToken,
                !.reasonRevoked = "Replaced by new token"]

refreshToken_start(s, token) ==
    /\ Start(s, [Idle EXCEPT !.op = "refreshToken", !.pc = "findUnique", !.token = token])
    /\ UNCHANGED <<users, refreshTokens, now, ticks, draws, resources>>

\* the handler's next database call: refreshToken.findUnique (with the
\* isActive check on the row it returned), generateTokens'
\* refreshToken.create, then the refreshToken.update that revokes the old
\* row and the 200
refreshToken_step(s) ==
    LET r == reqs[s] IN
    /\ r.op = "refreshToken" /\ r.pc \notin {"idle", "done"}
    /\ CASE r.pc = "findUnique" ->
              LET id == FindRefreshToken(r.token)
                  seen == [r EXCEPT !.knownAtLookup = (id # 0),
                                    !.activeAtLookup = (id # 0 /\ Active(refreshTokens[id])),
                                    !.revokedAtLookup =
                                        (id # 0 /\ refreshTokens[id].revokedAt # Null)] IN
              /\ reqs' = [reqs EXCEPT ![s] =
                     IF id = 0 \/ ~isActive(refreshTokens[id])
                     THEN Respond(seen, 401, [error |-> "Invalid refresh token"])
                     ELSE [seen EXCEPT !.pc = "generateTokens", !.row = id,
                                       !.user = refreshTokens[id].userId]]
              /\ UNCHANGED <<users, refreshTokens, draws>>
         [] r.pc = "generateTokens" ->
              LET refreshToken == draws + 1 IN
              /\ draws' = draws + 1
              /\ refreshTokens' = CreateRefreshToken(refreshToken, r.user)
              /\ reqs' = [reqs EXCEPT ![s] =
                     [r EXCEPT !.pc = "update", !.newToken = refreshToken,
                               !.issuedAt = now, !.body = Tokens(users[r.user], refreshToken),
                               !.writes = @ + 1]]
              /\ UNCHANGED users
         [] r.pc = "update" ->
              \E ok \in BOOLEAN :
                 IF ok
                 THEN /\ refreshTokens' =
                           [refreshTokens EXCEPT ![r.row] = ReplacedBy(@, r.newToken)]
                      /\ reqs' = [reqs EXCEPT ![s] =
                             Respond([r EXCEPT !.writes = @ + 1], 200, r.body)]
                      /\ UNCHANGED <<users, draws>>
                 ELSE \* the update throws: the catch block answers
                      /\ reqs' = [reqs EXCEPT ![s] =
                             Respond(r, 500,
                                     [error |-> "An error occurred while processing your request."])]
                      /\ UNCHANGED <<users, refreshTokens, draws>>
    /\ UNCHANGED <<now, ticks, calls, resources>>

\* ------------------------------------------------------------ revokeToken
RevokedByUser_unexplained(row) == [row EXCEPT !.revokedAt = now]

RevokedByUser_toggled(row) ==
    [row EXCEPT !.revokedAt = IF @ = Null THEN now ELSE Null,
                !.reasonRevoked = "Revoked by user"]

\* the row after revokeToken's update
RevokedByUser(row) ==
    [row EXCEPT !.revokedAt = now, !.reasonRevoked = "Revoked by user"]

revokeToken_start(s, token) ==
    /\ Start(s, [Idle EXCEPT !.op = "revokeToken", !.pc = "findUnique", !.token = token])
    /\ UNCHANGED <<users, refreshTokens, now, ticks, draws, resources>>

\* the handler's next database call: refreshToken.findUnique, then the
\* refreshToken.update that revokes the row and the 200
revokeToken_step(s) ==
    LET r == reqs[s] IN
    /\ r.op = "revokeToken" /\ r.pc \notin {"idle", "done"}
    /\ CASE r.pc = "findUnique" ->
              LET id == FindRefreshToken(r.token)
                  seen == [r EXCEPT !.knownAtLookup = (id # 0),
                                    !.activeAtLookup = (id # 0 /\ Active(refreshTokens[id])),
                                    !.revokedAtLookup =
                                        (id # 0 /\ refreshTokens[id].revokedAt # Null)] IN
              /\ reqs' = [reqs EXCEPT ![s] =
                     IF id = 0
                     THEN Respond(seen, 404, [error |-> "Refresh token not found"])
                     ELSE [seen EXCEPT !.pc = "update", !.row = id]]
              /\ UNCHANGED refreshTokens
         [] r.pc = "update" ->
              /\ refreshTokens' = [refreshTokens EXCEPT ![r.row] = RevokedByUser(@)]
              /\ reqs' = [reqs EXCEPT ![s] =
                     Respond([r EXCEPT !.writes = @ + 1], 200,
                             [message |-> "Token revoked successfully"])]
    /\ UNCHANGED <<users, now, ticks, draws, calls, resources>>

\* ------------------------------------------------------------ forgotPassword
forgotPassword_start(s, email) ==
    /\ Start(s, [Idle EXCEPT !.op = "forgotPassword", !.pc = "findUnique", !.email = email,
                            !.existedAtStart = EmailTaken(email)])
    /\ UNCHANGED <<users, refreshTokens, now, ticks, draws, resources>>

\* the handler's next database call: user.findUnique (after which the reset
\* token is drawn and its expiry computed), then the user.update that
\* stores them and the 200
forgotPassword_step(s) ==
    LET r == reqs[s] IN
    /\ r.op = "forgotPassword" /\ r.pc \notin {"idle", "done"}
    /\ CASE r.pc = "findUnique" ->
              LET id == FindUserByEmail(r.email) IN
              IF id = 0
              THEN /\ reqs' = [reqs EXCEPT ![s] =
                          Respond(r, 200,
                                  [success |-> TRUE,
                                   message |-> "If an account exists with this email, you will receive password reset instructions"])]
                   /\ UNCHANGED <<users, draws>>
              ELSE /\ draws' = draws + 1
                   /\ reqs' = [reqs EXCEPT ![s] =
                          [r EXCEPT !.pc = "update", !.user = id, !.newToken = draws + 1,
                                    !.expiry = now + resetTokenExpiry]]
                   /\ UNCHANGED users
         [] r.pc = "update" ->
              /\ users' = [users EXCEPT ![r.user].resetToken = r.newToken,
                                        ![r.user].resetTokenExpiry = r.expiry]
              /\ reqs' = [reqs EXCEPT ![s] =
                     Respond([r EXCEPT !.writes = @ + 1], 200,
                             [success |-> TRUE,
                              message |-> "Password reset instructions sent to your email",
                              resetToken |-> r.newToken])]
              /\ UNCHANGED draws
    /\ UNCHANGED <<refreshTokens, now, ticks, calls, resources>>

\* ------------------------------------------------------------ resetPassword
\* the reset tokens a client can present: the ones forgotPassword has
\* answered with, stored, replaced or used up, and a string never issued
ResetInputs ==
    ((1..draws) \ ({refreshTokens[i].token : i \in DOMAIN refreshTokens}
                   \cup {reqs[s].newToken : s \in {t \in Slots : reqs[t].pc # "done"}}))
    \cup ({users[i].resetToken : i \in DOMAIN users} \ {Null})
    \cup {BogusToken}

PasswordReset_kept(user, passwordHash) == [user EXCEPT !.passwordHash = passwordHash]

\* the row after resetPassword's user.update: the new hash, the reset token cleared
PasswordReset(user, passwordHash) ==
    [user EXCEPT !.passwordHash = passwordHash, !.resetToken = Null,
                 !.resetTokenExpiry = Null]

resetPassword_start(s, token, newPassword) ==
    /\ Start(s, [Idle EXCEPT !.op = "resetPassword", !.pc = "findFirst", !.token = token,
                            !.password = newPassword])
    /\ UNCHANGED <<users, refreshTokens, now, ticks, draws, resources>>

\* the handler's next database call: user.findFirst on the token and its
\* expiry, then the user.update that stores the new hash and clears the
\* reset token, and the 200
resetPassword_step(s) ==
    LET r == reqs[s] IN
    /\ r.op = "resetPassword" /\ r.pc \notin {"idle", "done"}
    /\ CASE r.pc = "findFirst" ->
              LET id == FindUserByResetToken(r.token)
                  seen == [r EXCEPT !.knownAtLookup =
                                        (\E i \in DOMAIN users : users[i].resetToken = r.token),
                                    !.activeAtLookup =
                                        (\E i \in DOMAIN users :
                                            /\ users[i].resetToken = r.token
                                            /\ now < users[i].resetTokenExpiry)] IN
              /\ reqs' = [reqs EXCEPT ![s] =
                     IF id = 0
                     THEN Respond(seen, 400, [success |-> FALSE,
                                              message |-> "Invalid or expired reset token"])
                     ELSE [seen EXCEPT !.pc = "update", !.user = id]]
              /\ UNCHANGED users
         [] r.pc = "update" ->
              /\ users' = [users EXCEPT ![r.user] = PasswordReset(@, bcryptHash(r.password))]
              /\ reqs' = [reqs EXCEPT ![s] =
                     Respond([r EXCEPT !.writes = @ + 1,
                                       !.oldPassword = users[r.user].passwordHash.of], 200,
                             [success |-> TRUE,
                              message |-> "Password has been reset successfully"])]
    /\ UNCHANGED <<refreshTokens, now, ticks, draws, calls, resources>>

Next ==
    \/ Tick
    \/ \E s \in Slots, e \in Emails, p \in Passwords : register_start(s, e, p)
    \/ \E s \in Slots : register_step(s)
    \/ \E s \in Slots, e \in Emails, p \in Passwords : login_start(s, e, p)
    \/ \E s \in Slots : login_step(s)
    \/ \E s \in Slots, t \in TokenInputs : refreshToken_start(s, t)
    \/ \E s \in Slots : refreshToken_step(s)
    \/ \E s \in Slots, t \in TokenInputs : revokeToken_start(s, t)
    \/ \E s \in Slots : revokeToken_step(s)
    \/ \E s \in Slots, e \in Emails : forgotPassword_start(s, e)
    \/ \E s \in Slots : forgotPassword_step(s)
    \/ \E s \in Slots, t \in ResetInputs, p \in Passwords : resetPassword_start(s, t, p)
    \/ \E s \in Slots : resetPassword_step(s)

Spec == Init /\ [][Next]_vars

\* ------------------------------------------------------------ password reset
\* the tables after register has answered 201 for each email at time 0:
\* password reset is followed from there
InitRegistered ==
    /\ users = <<NewUserRow(1, "a@b.com", bcryptHash("Abc12345!")),
                 NewUserRow(2, "c@d.com", bcryptHash("Xyz98765!"))>>
    /\ refreshTokens = <<NewRefreshTokenRow(1, 1, refreshTokenExpiry, 1),
                         NewRefreshTokenRow(2, 2, refreshTokenExpiry, 2)>>
    /\ now = 0
    /\ ticks = 0
    /\ draws = 2
    /\ calls = 0
    /\ reqs = [s \in Slots |-> Idle]
    /\ tasks = <<>>
    /\ items = <<>>
    /\ env = NODE_ENV

NextReset ==
    \/ Tick
    \/ \E s \in Slots, e \in Emails, p \in Passwords : login_start(s, e, p)
    \/ \E s \in Slots : login_step(s)
    \/ \E s \in Slots, e \in Emails : forgotPassword_start(s, e)
    \/ \E s \in Slots : forgotPassword_step(s)
    \/ \E s \in Slots, t \in ResetInputs, p \in Passwords : resetPassword_start(s, t, p)
    \/ \E s \in Slots : resetPassword_step(s)

SpecReset == InitRegistered /\ [][NextReset]_vars

\* ------------------------------------------------------------ replay
\* the tables after both users registered and the first logged in again,
\* all at time 0: the first user holds two refresh tokens
InitLoggedIn ==
    /\ now = 0
    /\ users = <<LoggedIn(NewUserRow(1, "a@b.com", bcryptHash("Abc12345!"))),
                 NewUserRow(2, "c@d.com", bcryptHash("Xyz98765!"))>>
    /\ refreshTokens = <<NewRefreshTokenRow(1, 1, refreshTokenExpiry, 1),
                         NewRefreshTokenRow(2, 2, refreshTokenExpiry, 2),
                         NewRefreshTokenRow(3, 3, refreshTokenExpiry, 1)>>
    /\ ticks = 0
    /\ draws = 3
    /\ calls = 0
    /\ reqs = [s \in Slots |-> Idle]
    /\ tasks = <<>>
    /\ items = <<>>
    /\ env = NODE_ENV

\* revoke and refresh calls on the tokens of the two users
NextReplay ==
    \/ Tick
    \/ \E s \in Slots, t \in TokenInputs : refreshToken_start(s, t)
    \/ \E s \in Slots : refreshToken_step(s)
    \/ \E s \in Slots, t \in TokenInputs : revokeToken_start(s, t)
    \/ \E s \in Slots : revokeToken_step(s)

SpecReplay == InitLoggedIn /\ [][NextReplay]_vars

\* ------------------------------------------------------------ numbers in strings
DigitValue ==
    ("0" :> 0) @@ ("1" :> 1) @@ ("2" :> 2) @@ ("3" :> 3) @@ ("4" :> 4)
    @@ ("5" :> 5) @@ ("6" :> 6) @@ ("7" :> 7) @@ ("8" :> 8) @@ ("9" :> 9)

\* the decimal digits a client writes for n >= 0
RECURSIVE Decimal(_)
Decimal(n) ==
    LET d == CHOOSE c \in DOMAIN DigitValue : DigitValue[c] = n % 10 IN
    IF n < 10 THEN <<d>> ELSE Append(Decimal(n \div 10), d)

\* the number of leading characters of chars that are digits
LeadingDigits(chars) ==
    CHOOSE k \in 0..Len(chars) :
        /\ \A i \in 1..k : chars[i] \in DOMAIN DigitValue
        /\ k < Len(chars) => chars[k + 1] \notin DOMAIN DigitValue

RECURSIVE DigitsValue(_, _)
DigitsValue(chars, k) ==
    IF k = 0 THEN 0 ELSE 10 * DigitsValue(chars, k - 1) + DigitValue[chars[k]]

\* parseInt(string): the number its leading sign and digits spell, NaN when
\* it has no leading digit (as the empty string has, and undefined)
parseInt(chars) ==
    LET negative == Len(chars) > 0 /\ chars[1] = "-"
        digits == IF negative THEN Tail(chars) ELSE chars
        k == LeadingDigits(digits) IN
    IF k = 0 THEN [nan |-> TRUE, n |-> 0]
    ELSE [nan |-> FALSE,
          n |-> IF negative THEN 0 - DigitsValue(digits, k) ELSE DigitsValue(digits, k)]

\* a request carries a token of the server that has not expired
Authorized(header) ==
    /\ header.scheme = "Bearer"
    /\ header.token.key = jwtKey /\ now < header.token.exp
    /\ header.token.iss = jwtIssuer /\ header.token.aud = jwtAudience

\* ------------------------------------------------------------ tasks
\* the row prisma.task.create stores
NewTaskRow(id, title, description, status, userId) ==
    [id |-> id, title |-> title, description |-> description, status |-> status,
     userId |-> userId, createdAt |-> now]

\* the access tokens a client can present: the ones register returned at
\* time 0, one signed with a key that is not the server's and a string
\* that is no token
AccessTokenInputs ==
    {jwtSignAt(users[i], 0) : i \in DOMAIN users}
    \cup {[id |-> 1, email |-> "a@b.com", exp |-> now + accessTokenExpiry,
           iss |-> jwtIssuer, aud |-> jwtAudience, key |-> "guessed-key"]}
    \cup {MalformedToken}

AuthorizationInputs ==
    {NoAuthorization, Basic} \cup {Bearer(t) : t \in AccessTokenInputs}

CreateTaskBodies ==
    {[title |-> JsString("Ab")],
     [title |-> JsString("cd"), description |-> JsString("Ab"),
      status |-> JsString("completed")],
     [status |-> JsString("pending")],
     [title |-> JsString("Ab"), status |-> JsString("Done")]}

\* a request of the task router after router.use(authenticateToken) and the
\* route's validateRequest, if it has one: answered by the middleware, or
\* at the handler's database call.  The body, query and path parameters
\* are first read after authenticateToken has called next()
TaskRequest(op, params, pc, header, checked) ==
    LET r == [Idle EXCEPT !.op = op, !.route = "tasks", !.header = header,
                          !.authorized = Authorized(header)]
        auth == authenticateToken(header) IN
    IF auth.status # 0 THEN Respond(r, auth.status, auth.body)
    ELSE IF checked.status # 0
    THEN Respond([r EXCEPT !.params = params, !.caller = auth.user],
                 checked.status, checked.body)
    ELSE [r EXCEPT !.params = params, !.pc = pc, !.caller = auth.user,
                   !.handlerRan = TRUE]

\* next() without a middleware in between
Passed == [status |-> 0, body |-> [success |-> TRUE, message |-> "", errors |-> {}]]

createTask_start(s, header, body) ==
    /\ Start(s, TaskRequest("createTask", body, "create", header,
                            validateRequest("createTask", body)))
    /\ UNCHANGED <<users, refreshTokens, now, ticks, draws, resources>>

\* prisma.task.create({ data: { title, description, status, userId } }) and
\* the 201; the create throws when the body has no title
createTask_step(s) ==
    LET r == reqs[s]
        description == IF "description" \in DOMAIN r.params
                       THEN r.params.description.v ELSE NullText
        status == IF "status" \in DOMAIN r.params THEN r.params.status.v ELSE "pending" IN
    /\ r.op = "createTask" /\ r.pc = "create"
    /\ IF "title" \notin DOMAIN r.params
       THEN /\ reqs' = [reqs EXCEPT ![s] =
                   Respond([r EXCEPT !.thrown = ArgumentError], 500,
                           [success |-> FALSE, message |-> "Error creating task",
                            error |-> ArgumentError.message])]
            /\ UNCHANGED tasks
       ELSE LET task == NewTaskRow(Len(tasks) + 1, r.params.title.v, description, status,
                                   r.caller) IN
            /\ tasks' = Append(tasks, task)
            /\ reqs' = [reqs EXCEPT ![s] =
                   Respond([r EXCEPT !.writes = @ + 1], 201,
                           [success |-> TRUE, data |-> task])]
    /\ UNCHANGED <<users, refreshTokens, now, ticks, draws, calls, items, env>>

\* the where clause of getTasks: { userId, ...(status && { status }),
\* ...(search && { OR: [title contains, description contains] }) }
TaskMatches(task, userId, status, search) ==
    /\ task.userId = userId
    /\ status # "" => task.status = status
    /\ search # "" =>
          \/ ContainsInsensitive(task.title, search)
          \/ task.description # NullText /\ ContainsInsensitive(task.description, search)

\* orderBy: { createdAt: 'desc' }: the orders of the rows ids, newest first
NewestFirst(ids) ==
    {q \in [1..Cardinality(ids) -> ids] :
        /\ \A i, j \in DOMAIN q : i # j => q[i] # q[j]
        /\ \A i, j \in DOMAIN q : i < j => tasks[q[i]].createdAt >= tasks[q[j]].createdAt}

getTasks_start(s, header, query) ==
    /\ Start(s, TaskRequest("getTasks", query, "findMany", header, Passed))
    /\ UNCHANGED <<users, refreshTokens, now, ticks, draws, resources>>

\* prisma.task.findMany({ where, orderBy }) and the 200
getTasks_step(s) ==
    LET r == reqs[s]
        found == {i \in DOMAIN tasks :
                     TaskMatches(tasks[i], r.caller, r.params.status, r.params.search)} IN
    /\ r.op = "getTasks" /\ r.pc = "findMany"
    /\ \E q \in NewestFirst(found) :
          reqs' = [reqs EXCEPT ![s] =
              Respond(r, 200, [success |-> TRUE, data |-> [k \in DOMAIN q |-> tasks[q[k]]]])]
    /\ UNCHANGED <<users, refreshTokens, now, ticks, draws, calls, resources>>

FindTask_anyOwner(id, userId) ==
    IF \E i \in DOMAIN tasks : tasks[i].id = id
    THEN CHOOSE i \in DOMAIN tasks : tasks[i].id = id
    ELSE 0

\* prisma.task.findFirst({ where: { id, userId } }): the row's id, 0 when there is none
FindTask(id, userId) ==
    IF \E i \in DOMAIN tasks : tasks[i].id = id /\ tasks[i].userId = userId
    THEN CHOOSE i \in DOMAIN tasks : tasks[i].id = id /\ tasks[i].userId = userId
    ELSE 0

\* the path parameters a client can write: task ids, an id no task has, a
\* number followed by letters, and letters
TaskIdInputs ==
    {Decimal(n) : n \in 1..(Len(tasks) + 1)} \cup {<<"1", "x">>, <<"x">>}

\* the query strings of GET /tasks: status and search, "" for one left out
TaskQueries ==
    {[status |-> "", search |-> ""], [status |-> "pending", search |-> ""],
     [status |-> "", search |-> "B"]}

getTask_start(s, header, id) ==
    /\ Start(s, TaskRequest("getTask", [id |-> id], "findFirst", header, Passed))
    /\ UNCHANGED <<users, refreshTokens, now, ticks, draws, resources>>

\* prisma.task.findFirst({ where: { id: parseInt(id), userId } }), then the
\* 404 or the 200; the query throws when the id is NaN
getTask_step(s) ==
    LET r == reqs[s]
        id == parseInt(r.params.id) IN
    /\ r.op = "getTask" /\ r.pc = "findFirst"
    /\ reqs' = [reqs EXCEPT ![s] =
           IF id.nan
           THEN Respond([r EXCEPT !.thrown = ArgumentError], 500,
                        [success |-> FALSE, message |-> "Error retrieving task",
                         error |-> ArgumentError.message])
           ELSE IF FindTask(id.n, r.caller) = 0
           THEN Respond(r, 404, [success |-> FALSE, message |-> "Task not found"])
           ELSE Respond([r EXCEPT !.row = FindTask(id.n, r.caller)], 200,
                        [success |-> TRUE, data |-> tasks[FindTask(id.n, r.caller)]])]
    /\ UNCHANGED <<users, refreshTokens, now, ticks, draws, calls, resources>>

\* ------------------------------------------------------------ the auth routers
\* the two routers that mount POST /revoke-token
Routers == {"routes/auth", "routes/authRoutes"}

RevokeTokenBodies ==
    {[refreshToken |-> JsHex(t)] : t \in TokenInputs} \cup {[refreshToken |-> JsNumber(7)]}

\* POST /revoke-token: routes/auth mounts authenticateToken,
\* validate(schemas.refreshToken) and the handler; routes/authRoutes mounts
\* validateRequest('revokeToken') and the handler, and nothing there reads
\* the Authorization header
revokeTokenRoute_start(s, router, header, body) ==
    LET r == [Idle EXCEPT !.op = "revokeToken", !.route = router,
                          !.header = IF router = "routes/auth" THEN header
                                     ELSE NoAuthorization,
                          !.authorized = Authorized(header)]
        auth == IF router = "routes/auth" THEN authenticateToken(header)
                ELSE [status |-> 0, body |-> [error |-> ""], user |-> 0]
        checked == IF router = "routes/auth" THEN validate(schemas.refreshToken, body)
                   ELSE validateRequest("revokeToken", body) IN
    /\ Start(s, IF auth.status # 0 THEN Respond(r, auth.status, auth.body)
                ELSE IF checked.status # 0
                THEN Respond([r EXCEPT !.params = body, !.caller = auth.user],
                             checked.status, checked.body)
                ELSE [r EXCEPT !.params = body, !.pc = "findUnique",
                               !.caller = auth.user, !.handlerRan = TRUE,
                               !.token = body.refreshToken.n])
    /\ UNCHANGED <<users, refreshTokens, now, ticks, draws, resources>>

RegisterBody(email, password) ==
    [email |-> JsString(email), password |-> JsString(password),
     firstName |-> JsString("Ab"), lastName |-> JsString("cd"),
     age |-> JsNumber(30), gender |-> JsString("other")]

Without(body, key) == [k \in DOMAIN body \ {key} |-> body[k]]

RegisterBodies ==
    {RegisterBody("a@b.com", "Abc12345!"),
     RegisterBody("e@f.com", "Abc12345!"),
     RegisterBody("a.b.com", "Abc12345!"),
     Without(RegisterBody("e@f.com", "Abc12345!"), "firstName"),
     [RegisterBody("e@f.com", "Abc12345!") EXCEPT !.age = JsNumber(12)]}

\* "Password validation failed", the 400 of register and resetPassword
PasswordRefused(r, errors) ==
    Respond([r EXCEPT !.handlerRan = TRUE], 400,
            [success |-> FALSE, message |-> "Password validation failed",
             errors |-> errors])

\* POST /register: validateRequest('register') and the handler, which
\* validates the body against schemas.register again, then the password
\* with validatePassword
registerRoute_start(s, body) ==
    LET r == [Idle EXCEPT !.op = "register", !.route = "routes/authRoutes", !.params = body]
        checked == validateRequest("register", body) IN
    /\ Start(s, IF checked.status # 0 THEN Respond(r, checked.status, checked.body)
                ELSE IF ~validatePassword(Chars[body.password.v]).isValid
                THEN PasswordRefused(r, validatePassword(Chars[body.password.v]).errors)
                ELSE [r EXCEPT !.pc = "findUnique", !.handlerRan = TRUE,
                               !.email = body.email.v, !.password = body.password.v,
                               !.existedAtStart = EmailTaken(body.email.v)])
    /\ UNCHANGED <<users, refreshTokens, now, ticks, draws, resources>>

\* POST /reset-password: validateRequest('resetPassword') and the handler,
\* which validates newPassword with validatePassword before its lookup
resetPasswordRoute_start(s, body) ==
    LET r == [Idle EXCEPT !.op = "resetPassword", !.route = "routes/authRoutes",
                          !.params = body]
        checked == validateRequest("resetPassword", body) IN
    /\ Start(s, IF checked.status # 0 THEN Respond(r, checked.status, checked.body)
                ELSE IF ~validatePassword(Chars[body.newPassword.v]).isValid
                THEN PasswordRefused(r, validatePassword(Chars[body.newPassword.v]).errors)
                ELSE [r EXCEPT !.pc = "findFirst", !.handlerRan = TRUE,
                               !.token = body.token.n, !.password = body.newPassword.v])
    /\ UNCHANGED <<users, refreshTokens, now, ticks, draws, resources>>

\* the passwords a client can choose: one that meets every rule with "!",
\* one that meets every rule with "#", and one that breaks each rule
PasswordInputs ==
    {"Abc12345!", "Abc1234#", "Ab1!", "abc12345!", "ABX12345!", "Abcabcab!", "Abc123456"}

\* register and reset-password through their routes, with any password
NextPasswords ==
    \/ \E s \in Slots, p \in PasswordInputs : registerRoute_start(s, RegisterBody("e@f.com", p))
    \/ \E s \in Slots : register_step(s)
    \/ \E s \in Slots, e \in Emails : forgotPassword_start(s, e)
    \/ \E s \in Slots : forgotPassword_step(s)
    \/ \E s \in Slots, t \in ResetInputs, p \in PasswordInputs :
          resetPasswordRoute_start(s, [token |-> JsHex(t), newPassword |-> JsString(p)])
    \/ \E s \in Slots : resetPassword_step(s)

SpecPasswords == InitRegistered /\ [][NextPasswords]_vars

\* the routes that authenticate and validate before their handler: the
\* task router and POST /register
NextTasks ==
    \/ Tick
    \/ \E s \in Slots, h \in AuthorizationInputs, b \in CreateTaskBodies :
          createTask_start(s, h, b)
    \/ \E s \in Slots : createTask_step(s)
    \/ \E s \in Slots, h \in AuthorizationInputs, q \in TaskQueries : getTasks_start(s, h, q)
    \/ \E s \in Slots : getTasks_step(s)
    \/ \E s \in Slots, h \in AuthorizationInputs, id \in TaskIdInputs : getTask_start(s, h, id)
    \/ \E s \in Slots : getTask_step(s)
    \/ \E s \in Slots, b \in RegisterBodies : registerRoute_start(s, b)
    \/ \E s \in Slots : register_step(s)

SpecTasks == InitRegistered /\ [][NextTasks]_vars

\* POST /revoke-token through either router
NextRevoke ==
    \/ Tick
    \/ \E s \in Slots, router \in Routers, h \in AuthorizationInputs, b \in RevokeTokenBodies :
          revokeTokenRoute_start(s, router, h, b)
    \/ \E s \in Slots : revokeToken_step(s)

SpecRevoke == InitRegistered /\ [][NextRevoke]_vars

\* ------------------------------------------------------------ sessions
\* the calls that return an access token, in the response that stands in slot d
IssuesTokens(d) ==
    /\ reqs[d].op \in {"register", "login", "refreshToken"}
    /\ reqs[d].pc = "done" /\ reqs[d].status \in {200, 201}

\* accessToken of the response in slot d: refreshToken answers the tokens
\* object, register and login put it under data
ReturnedAccessToken(d) ==
    IF reqs[d].op = "refreshToken" THEN reqs[d].body.accessToken
    ELSE reqs[d].body.data.accessToken

\* the user the response in slot d was issued for
ReturnedFor(d) ==
    IF reqs[d].op = "refreshToken" THEN reqs[d].user ELSE reqs[d].body.data.user.id

\* Authorization: Bearer <accessToken> with a token a response holds
SessionHeaders == {Bearer(ReturnedAccessToken(d)) : d \in {e \in Slots : IssuesTokens(e)}}

\* register, login and refreshToken, and GET /tasks with the access token
\* one of them returned
NextSession ==
    \/ Tick
    \/ \E s \in Slots, b \in RegisterBodies : registerRoute_start(s, b)
    \/ \E s \in Slots : register_step(s)
    \/ \E s \in Slots, e \in Emails, p \in Passwords : login_start(s, e, p)
    \/ \E s \in Slots : login_step(s)
    \/ \E s \in Slots, t \in TokenInputs : refreshToken_start(s, t)
    \/ \E s \in Slots : refreshToken_step(s)
    \/ \E s \in Slots, h \in SessionHeaders, q \in TaskQueries : getTasks_start(s, h, q)
    \/ \E s \in Slots : getTasks_step(s)

SpecSession == InitRegistered /\ [][NextSession]_vars

\* ------------------------------------------------------------ error middleware
GenericMessage == "An error occurred while processing your request."

\* errorHandler(err, req, res, next): the status and the body it answers
errorHandler(err) ==
    CASE err.name = "ValidationError" ->
           [status |-> 400,
            body |-> [error |-> [message |-> err.message, code |-> "VALIDATION_ERROR"]]]
      [] err.name = "UnauthorizedError" ->
           [status |-> 401,
            body |-> [error |-> [message |-> "Invalid authentication credentials",
                                 code |-> "UNAUTHORIZED"]]]
      [] err.name = "ForbiddenError" ->
           [status |-> 403,
            body |-> [error |-> [message |-> "Insufficient permissions",
                                 code |-> "FORBIDDEN"]]]
      [] OTHER ->
           [status |-> 500,
            body |-> [error |-> [message |-> GenericMessage, code |-> "INTERNAL_ERROR"]]]

\* globalExceptionMiddleware(err, req, res, next)
globalExceptionMiddleware(err) ==
    [status |-> 500,
     body |-> [statusCode |-> 500,
               message |-> IF env = "development" THEN err.message ELSE GenericMessage,
               detailedMessage |-> IF env = "development" THEN err.stack ELSE NullText]]

ErrorMiddlewares == {"errorHandler", "globalExceptionMiddleware"}

\* the errors that reach the error middleware: express.json() refusing a
\* body that is not JSON, and errors named as errorHandler expects
ErrorInputs ==
    {[name |-> "SyntaxError", message |-> "Unexpected token in JSON",
      stack |-> "SyntaxError: Unexpected token in JSON at parse"],
     [name |-> "ValidationError", message |-> "title is required",
      stack |-> "ValidationError: title is required at validate"],
     [name |-> "UnauthorizedError", message |-> "jwt expired",
      stack |-> "UnauthorizedError: jwt expired at verify"],
     [name |-> "ForbiddenError", message |-> "role not allowed",
      stack |-> "ForbiddenError: role not allowed at authorize"]}

\* next(err): express hands the error to the error middleware, which answers
errorMiddleware_start(s, middleware, err) ==
    LET answer == IF middleware = "errorHandler" THEN errorHandler(err)
                  ELSE globalExceptionMiddleware(err) IN
    /\ Start(s, Respond([Idle EXCEPT !.op = "error", !.route = middleware,
                                     !.thrown = err],
                        answer.status, answer.body))
    /\ UNCHANGED <<users, refreshTokens, now, ticks, draws, resources>>

\* the strings of a response body that answers an error
ResponseTexts(r) ==
    IF r.op = "error"
    THEN IF r.route = "errorHandler" THEN {r.body.error.message, r.body.error.code}
         ELSE {r.body.message, r.body.detailedMessage}
    ELSE {r.body[k] : k \in DOMAIN r.body \ {"success"}}

\* the server started with either NODE_ENV, two users registered
InitErrors ==
    /\ users = <<NewUserRow(1, "a@b.com", bcryptHash("Abc12345!")),
                 NewUserRow(2, "c@d.com", bcryptHash("Xyz98765!"))>>
    /\ refreshTokens = <<NewRefreshTokenRow(1, 1, refreshTokenExpiry, 1),
                         NewRefreshTokenRow(2, 2, refreshTokenExpiry, 2)>>
    /\ now = 0
    /\ ticks = 0
    /\ draws = 2
    /\ calls = 0
    /\ reqs = [s \in Slots |-> Idle]
    /\ tasks = <<>>
    /\ items = <<>>
    /\ env \in Envs

\* the requests that can end in a 500: register, the task routes whose
\* query prisma can refuse, and errors passed to the error middleware
NextErrors ==
    \/ \E s \in Slots, b \in RegisterBodies : registerRoute_start(s, b)
    \/ \E s \in Slots : register_step(s)
    \/ \E s \in Slots, h \in AuthorizationInputs, b \in CreateTaskBodies :
          createTask_start(s, h, b)
    \/ \E s \in Slots : createTask_step(s)
    \/ \E s \in Slots, h \in AuthorizationInputs, id \in TaskIdInputs : getTask_start(s, h, id)
    \/ \E s \in Slots : getTask_step(s)
    \/ \E s \in Slots, m \in ErrorMiddlewares, e \in ErrorInputs :
          errorMiddleware_start(s, m, e)

SpecErrors == InitErrors /\ [][NextErrors]_vars

\* ------------------------------------------------------------ items
\* the i-th row of the Item table, and the columns listItems selects
ItemRow(i) ==
    [id |-> i, name |-> "item", category |-> "category", cost |-> i,
     thumbnailUrl |-> NullText, description |-> "description"]
ItemView(row) ==
    [id |-> row.id, name |-> row.name, category |-> row.category, cost |-> row.cost,
     thumbnailUrl |-> row.thumbnailUrl]

\* parseInt(value) || fallback
ParsedOr(chars, fallback) ==
    LET parsed == parseInt(chars) IN
    IF parsed.nan \/ parsed.n = 0 THEN fallback ELSE parsed.n

Skip_pages(page, limit) == page * limit

\* const skip = (page - 1) * limit
Skip(page, limit) == (page - 1) * limit

\* Math.ceil(total / limit), for limit > 0
Ceil(total, limit) ==
    IF total % limit = 0 THEN total \div limit ELSE (total \div limit) + 1

\* the query strings of GET /items: "" for one left out
PageInputs == {<<>>, <<"-", "1">>} \cup {Decimal(n) : n \in 0..MaxPage}
LimitInputs == {<<>>, <<"x">>, Decimal(0), Decimal(3), Decimal(10)}

\* GET /items has no middleware
listItems_start(s, page, limit) ==
    /\ Start(s, [Idle EXCEPT !.op = "listItems", !.pc = "findMany",
                            !.route = "routes/itemRoutes", !.handlerRan = TRUE,
                            !.params = [page |-> page, limit |-> limit]])
    /\ UNCHANGED <<users, refreshTokens, now, ticks, draws, resources>>

\* the handler's next database call: item.findMany({ skip, take, select }),
\* which throws on a negative skip, then item.count() and the 200
listItems_step(s) ==
    LET r == reqs[s]
        page == ParsedOr(r.params.page, 1)
        limit == ParsedOr(r.params.limit, 10)
        skip == Skip(page, limit)
        last == IF skip + limit < Len(items) THEN skip + limit ELSE Len(items) IN
    /\ r.op = "listItems" /\ r.pc \notin {"idle", "done"}
    /\ reqs' = [reqs EXCEPT ![s] =
           CASE r.pc = "findMany" /\ skip < 0 ->
                  Respond(r, 500, [error |-> "Failed to fetch items"])
             [] r.pc = "findMany" /\ skip >= 0 ->
                  [r EXCEPT !.pc = "count",
                            !.body = [k \in 1..(IF last > skip THEN last - skip ELSE 0) |->
                                         ItemView(items[skip + k])]]
             [] r.pc = "count" ->
                  Respond(r, 200,
                          [items |-> r.body,
                           pagination |-> [total |-> Len(items), page |-> page,
                                           limit |-> limit,
                                           totalPages |-> Ceil(Len(items), limit)]])]
    /\ UNCHANGED <<users, refreshTokens, now, ticks, draws, calls, resources>>

\* the Item table holds any number of rows up to MaxItems
InitItems ==
    /\ users = <<>>
    /\ refreshTokens = <<>>
    /\ now = 0
    /\ ticks = 0
    /\ draws = 0
    /\ calls = 0
    /\ reqs = [s \in Slots |-> Idle]
    /\ tasks = <<>>
    /\ \E n \in 0..MaxItems : items = [i \in 1..n |-> ItemRow(i)]
    /\ env = NODE_ENV

NextItems ==
    \/ \E s \in Slots, page \in PageInputs, limit \in LimitInputs : listItems_start(s, page, limit)
    \/ \E s \in Slots : listItems_step(s)

SpecItems == InitItems /\ [][NextItems]_vars

\* ------------------------------------------------------------ item search
\* the relevanceScore aiSearch gives an item for a prompt; the rows of the
\* Item table have no color and no size
relevanceScore(item, prompt) ==
    (IF ContainsInsensitive(prompt, "cheaper") \/ ContainsInsensitive(prompt, "lowest price")
     THEN 0 - item.cost ELSE 0)
    + (IF ContainsInsensitive(prompt, "expensive")
          \/ ContainsInsensitive(prompt, "highest price")
       THEN item.cost ELSE 0)

\* results.sort((a, b) => b.relevanceScore - a.relevanceScore) over the rows
\* item.findMany({ where: { id: { in: items } } }) returned in id order: the
\* ids by falling score, rows of equal score in their order
SortedByScore(ids, prompt) ==
    CHOOSE q \in [1..Cardinality(ids) -> ids] :
        /\ \A i, j \in DOMAIN q : i # j => q[i] # q[j]
        /\ \A i, j \in DOMAIN q : i < j =>
              \/ relevanceScore(items[q[i]], prompt) > relevanceScore(items[q[j]], prompt)
              \/ /\ relevanceScore(items[q[i]], prompt) = relevanceScore(items[q[j]], prompt)
                 /\ q[i] < q[j]

\* aiSearch(req, res): the status and the body it answers
aiSearch(body) ==
    IF "items" \notin DOMAIN body \/ body.items.type # "array" \/ body.items.elements = {}
    THEN [status |-> 400, body |-> [error |-> "Invalid items array"]]
    ELSE LET found == {i \in DOMAIN items : items[i].id \in body.items.elements} IN
         IF found # {} /\ ("prompt" \notin DOMAIN body \/ body.prompt.type # "string")
         THEN \* prompt.toLowerCase is not a function: the catch block answers
              [status |-> 500, body |-> [error |-> "Failed to process AI search"]]
         ELSE LET prompt == IF "prompt" \in DOMAIN body THEN body.prompt.v ELSE "" 
                  q == SortedByScore(found, prompt) IN
              [status |-> 200,
               body |-> [results |-> [k \in DOMAIN q |->
                                         [item |-> items[q[k]],
                                          relevanceScore |->
                                              relevanceScore(items[q[k]], prompt)]],
                         prompt |-> prompt, totalItems |-> Cardinality(found)]]

\* the bodies of POST /items/search: ids and a prompt, ids alone, no ids
SearchBodies ==
    {[items |-> JsArray({1, 2}), prompt |-> JsString("cheaper")],
     [items |-> JsArray({2, 3}), prompt |-> JsString("expensive")],
     [items |-> JsArray({1})],
     [items |-> JsArray({}), prompt |-> JsString("cheaper")]}

\* POST /items/search: authenticateToken, validateRequest('aiSearch') and
\* the handler, which makes one query and answers
aiSearchRoute(s, header, body) ==
    LET r == [Idle EXCEPT !.op = "aiSearch", !.route = "routes/itemRoutes",
                          !.header = header, !.authorized = Authorized(header)]
        auth == authenticateToken(header)
        checked == validateRequest("aiSearch", body)
        answer == aiSearch(body) IN
    /\ Start(s, IF auth.status # 0 THEN Respond(r, auth.status, auth.body)
                ELSE IF checked.status # 0
                THEN Respond([r EXCEPT !.params = body, !.caller = auth.user],
                             checked.status, checked.body)
                ELSE Respond([r EXCEPT !.params = body, !.caller = auth.user,
                                       !.handlerRan = TRUE],
                             answer.status, answer.body))
    /\ UNCHANGED <<users, refreshTokens, now, ticks, draws, resources>>

\* two registered users and an Item table of up to MaxSearchItems rows
InitSearch ==
    /\ users = <<NewUserRow(1, "a@b.com", bcryptHash("Abc12345!")),
                 NewUserRow(2, "c@d.com", bcryptHash("Xyz98765!"))>>
    /\ refreshTokens = <<NewRefreshTokenRow(1, 1, refreshTokenExpiry, 1),
                         NewRefreshTokenRow(2, 2, refreshTokenExpiry, 2)>>
    /\ now = 0
    /\ ticks = 0
    /\ draws = 2
    /\ calls = 0
    /\ reqs = [s \in Slots |-> Idle]
    /\ tasks = <<>>
    /\ \E n \in 0..MaxSearchItems : items = [i \in 1..n |-> ItemRow(i)]
    /\ env = NODE_ENV

NextSearch ==
    \/ Tick
    \/ \E s \in Slots, h \in AuthorizationInputs, b \in SearchBodies : aiSearchRoute(s, h, b)

SpecSearch == InitSearch /\ [][NextSearch]_vars

\* the schema names the routes pass to validateRequest
RouteSchemas ==
    {"register", "login", "refreshToken", "revokeToken", "forgotPassword",
     "resetPassword", "changePassword", "createTask", "aiSearch"}

\* ------------------------------------------------------------ properties
RefreshDone(s) == reqs[s].op = "refreshToken" /\ reqs[s].pc = "done"

\* C1: a refreshToken call succeeds (200) exactly when the token it presents
\* has a row that is unrevoked and unexpired when the handler looks it up; so
\* the token a register or login returned is accepted by the first refresh
\* made with it before it expires.
C1_RefreshSucceedsIffActive ==
    \A s \in Slots :
        RefreshDone(s) => (reqs[s].status = 200 <=> reqs[s].activeAtLookup)

C3_InactiveRefreshRejected ==
    \A s \in Slots :
        (reqs[s].op = "refreshToken" /\ reqs[s].pc # "findUnique"
         /\ ~reqs[s].activeAtLookup)
        => reqs[s].pc = "done" /\ reqs[s].status = 401 /\ reqs[s].writes = 0

\* a refresh made with a stored, unrevoked token past its expiresAt has been
\* answered 401
C3_Witness ==
    \E s \in Slots :
        /\ RefreshDone(s) /\ reqs[s].knownAtLookup /\ ~reqs[s].revokedAtLookup
        /\ ~reqs[s].activeAtLookup /\ reqs[s].status = 401

\* C4: revocation is terminal: a row whose revokedAt is set keeps it set in
\* every step of every handler, and a refreshToken call that finds the row
\* revoked is answered 401.
C4_RevocationTerminal ==
    [][/\ \A i \in DOMAIN refreshTokens :
             refreshTokens[i].revokedAt # Null => refreshTokens'[i].revokedAt # Null
       /\ \A s \in Slots :
             (reqs'[s].op = "refreshToken" /\ reqs'[s].revokedAtLookup)
             => reqs'[s].pc = "done" /\ reqs'[s].status = 401]_vars

\* a token revoked by revokeToken was presented to a later refresh, which
\* was answered 401, and the row is still revoked
C4_Witness ==
    \E s \in Slots :
        /\ RefreshDone(s) /\ reqs[s].revokedAtLookup /\ reqs[s].status = 401
        /\ \E i \in DOMAIN refreshTokens :
              /\ refreshTokens[i].token = reqs[s].token
              /\ refreshTokens[i].revokedAt # Null
              /\ refreshTokens[i].reasonRevoked = "Revoked by user"

C7_RegisterExisting ==
    [][\A s \in Slots :
          (/\ reqs[s].op = "register" /\ reqs[s].pc # "done"
           /\ reqs[s].existedAtStart /\ reqs'[s] # reqs[s])
          => /\ reqs'[s].pc = "done" /\ reqs'[s].status = 400
             /\ reqs'[s].body = [success |-> FALSE, message |-> "User already exists"]
             /\ users' = users /\ refreshTokens' = refreshTokens]_vars

\* a register for an email already registered has been answered 400
C7_Witness ==
    \E s \in Slots :
        /\ reqs[s].op = "register" /\ reqs[s].pc = "done"
        /\ reqs[s].existedAtStart /\ reqs[s].status = 400

\* C8: of two register requests in flight together for the same new email,
\* the table never holds two users with the email, exactly one is answered
\* 201 and the other is answered 400 'User already exists'.
C8_ConcurrentRegister ==
    /\ \A i, j \in DOMAIN users : users[i].email = users[j].email => i = j
    /\ \A s1, s2 \in Slots :
          (/\ s1 # s2
           /\ reqs[s1].op = "register" /\ reqs[s1].pc = "done" /\ ~reqs[s1].existedAtStart
           /\ reqs[s2].op = "register" /\ reqs[s2].pc = "done" /\ ~reqs[s2].existedAtStart
           /\ reqs[s1].email = reqs[s2].email
           /\ reqs[s1].status = 201)
          => /\ reqs[s2].status = 400
             /\ reqs[s2].body = [success |-> FALSE, message |-> "User already exists"]

\* C9: when register, login or refreshToken answers with a refresh token,
\* the token is stored in a row of that user, unrevoked, expiring
\* refreshTokenExpiry (7 days) after it was issued.
C9_ReturnedTokenStored ==
    [][\A s \in Slots :
          (/\ reqs'[s].op \in {"register", "login", "refreshToken"}
           /\ reqs[s].pc # "done" /\ reqs'[s].pc = "done"
           /\ reqs'[s].status \in {200, 201})
          => LET returned == IF reqs'[s].op = "refreshToken"
                             THEN reqs'[s].body.refreshToken
                             ELSE reqs'[s].body.data.refreshToken IN
             \E i \in DOMAIN refreshTokens' :
                /\ refreshTokens'[i].token = returned
                /\ refreshTokens'[i].userId = reqs'[s].user
                /\ refreshTokens'[i].revokedAt = Null
                /\ refreshTokens'[i].expiresAt = reqs'[s].issuedAt + 7 * 24 * 60 * 60]_vars

\* a login has been answered 200 with a refresh token
C9_Witness ==
    \E s \in Slots :
        /\ reqs[s].op = "login" /\ reqs[s].pc = "done" /\ reqs[s].status = 200
        /\ FindRefreshToken(reqs[s].body.data.refreshToken) # 0

\* C10: a login with a registered email and a wrong password and a login
\* with an unregistered email get the same answer: 401 and the same body.
C10_LoginFailuresAlike ==
    \A s1, s2 \in Slots :
        (/\ reqs[s1].op = "login" /\ reqs[s1].pc = "done"
         /\ reqs[s1].knownAtLookup /\ ~reqs[s1].matchedAtLookup
         /\ reqs[s2].op = "login" /\ reqs[s2].pc = "done"
         /\ ~reqs[s2].knownAtLookup)
        => /\ reqs[s1].status = 401 /\ reqs[s2].status = 401
           /\ reqs[s1].body = reqs[s2].body

\* a login with a wrong password and a login with an unregistered email
\* have both been answered
C10_Witness ==
    \E s1, s2 \in Slots :
        /\ reqs[s1].op = "login" /\ reqs[s1].pc = "done"
        /\ reqs[s1].knownAtLookup /\ ~reqs[s1].matchedAtLookup
        /\ reqs[s2].op = "login" /\ reqs[s2].pc = "done"
        /\ ~reqs[s2].knownAtLookup

\* C11: a login that succeeds stamps the user's lastLoginAt with the time of
\* its update and then stores one new refresh token of that user, which it
\* returns with the access token; a login answered 401 (unknown email or
\* wrong password) has changed no user row and created no refresh token.
C11_LoginFrame ==
    [][\A s \in Slots :
          (/\ reqs[s].op = "login" /\ reqs[s].pc \notin {"idle", "done"}
           /\ reqs'[s] # reqs[s])
          => LET u == reqs'[s].user IN
             CASE reqs'[s].status = 401 ->
                    /\ users' = users /\ refreshTokens' = refreshTokens
                    /\ reqs'[s].writes = 0
               [] reqs[s].pc = "update" ->
                    /\ users' = [users EXCEPT ![u].lastLoginAt = now]
                    /\ refreshTokens' = refreshTokens
               [] reqs'[s].status = 200 ->
                    /\ users' = users /\ users[u].lastLoginAt # Null
                    /\ Len(refreshTokens') = Len(refreshTokens) + 1
                    /\ \A i \in DOMAIN refreshTokens : refreshTokens'[i] = refreshTokens[i]
                    /\ refreshTokens'[Len(refreshTokens')].userId = u
                    /\ refreshTokens'[Len(refreshTokens')].token =
                           reqs'[s].body.data.refreshToken
                    /\ reqs'[s].body.data.user.id = u
                    /\ reqs'[s].body.data.accessToken.id = u
               [] OTHER ->
                    users' = users /\ refreshTokens' = refreshTokens]_vars

\* a login has been answered 200, its user's lastLoginAt is set, and a login
\* in flight with it has been answered 401
C11_Witness ==
    \E s1, s2 \in Slots :
        /\ reqs[s1].op = "login" /\ reqs[s1].pc = "done" /\ reqs[s1].status = 200
        /\ users[reqs[s1].user].lastLoginAt # Null
        /\ reqs[s2].op = "login" /\ reqs[s2].pc = "done" /\ reqs[s2].status = 401

\* C12: a forgotPassword call for an email that has a user and one for an
\* email that has none get the same answer: the same status and the same
\* body.
C12_ForgotAlike ==
    \A s1, s2 \in Slots :
        (/\ reqs[s1].op = "forgotPassword" /\ reqs[s1].pc = "done" /\ reqs[s1].user # 0
         /\ reqs[s2].op = "forgotPassword" /\ reqs[s2].pc = "done" /\ reqs[s2].user = 0)
        => /\ reqs[s1].status = reqs[s2].status
           /\ reqs[s1].body = reqs[s2].body

ResetLookup(s) ==
    /\ reqs[s].op = "resetPassword" /\ reqs[s].pc = "findFirst"
    /\ reqs'[s] # reqs[s]

ResetUpdate(s) ==
    /\ reqs[s].op = "resetPassword" /\ reqs[s].pc = "update"
    /\ reqs'[s] # reqs[s]

\* C13: a resetPassword call whose token is no user's stored reset token, or
\* is stored with an expiry (one hour after the forgotPassword that issued
\* it) that has been reached, is answered 400 at the lookup and leaves
\* every user's passwordHash, resetToken and resetTokenExpiry as they were.
C13_BadResetRejected ==
    [][\A s \in Slots :
          (ResetLookup(s) /\ ~reqs'[s].activeAtLookup)
          => /\ reqs'[s].pc = "done" /\ reqs'[s].status = 400
             /\ reqs'[s].writes = 0
             /\ users' = users]_vars

\* a reset with a stored token presented an hour or more after it was
\* issued, and a reset in flight with it with a token never issued, have
\* been answered 400
C13_Witness ==
    \E s1, s2 \in Slots :
        /\ reqs[s1].op = "resetPassword" /\ reqs[s1].pc = "done"
        /\ reqs[s1].knownAtLookup /\ ~reqs[s1].activeAtLookup /\ reqs[s1].status = 400
        /\ reqs[s2].op = "resetPassword" /\ reqs[s2].pc = "done"
        /\ reqs[s2].token = BogusToken /\ reqs[s2].status = 400

\* C14: a resetPassword that succeeds with a new password P stores a hash
\* that verifies P and no longer verifies the old password, and changes no
\* other user's passwordHash; while that hash is in place, a login of the
\* user with the old password is answered 401 and a login with P goes on to
\* be answered 200.
C14_ResetTakesEffect ==
    [][\A s \in Slots :
          /\ ResetUpdate(s) =>
                LET u == reqs[s].user
                    P == reqs[s].password IN
                /\ reqs'[s].status = 200
                /\ bcryptCompare(P, users'[u].passwordHash)
                /\ reqs'[s].oldPassword # P
                     => ~bcryptCompare(reqs'[s].oldPassword, users'[u].passwordHash)
                /\ \A i \in DOMAIN users :
                      i # u => users'[i].passwordHash = users[i].passwordHash
          /\ (/\ reqs[s].op = "login" /\ reqs[s].pc = "findUnique" /\ reqs'[s] # reqs[s])
             => \A t \in Slots :
                   (/\ reqs[t].op = "resetPassword" /\ reqs[t].pc = "done"
                    /\ reqs[t].status = 200
                    /\ reqs[t].user = FindUserByEmail(reqs[s].email)
                    /\ users[reqs[t].user].passwordHash = bcryptHash(reqs[t].password))
                   => /\ reqs[s].password = reqs[t].password => reqs'[s].pc = "update"
                      /\ (/\ reqs[s].password = reqs[t].oldPassword
                          /\ reqs[t].oldPassword # reqs[t].password)
                         => reqs'[s].pc = "done" /\ reqs'[s].status = 401
          /\ (/\ reqs[s].op = "login" /\ reqs[s].pc \in {"update", "generateTokens"}
              /\ reqs'[s] # reqs[s] /\ reqs'[s].pc = "done")
             => reqs'[s].status = 200]_vars

\* a reset has replaced a user's password by a different one P, and a login
\* of that user with P made after it has been answered 200
C14_Witness ==
    \E s, t \in Slots :
        /\ reqs[t].op = "resetPassword" /\ reqs[t].pc = "done" /\ reqs[t].status = 200
        /\ reqs[t].oldPassword # reqs[t].password
        /\ reqs[s].op = "login" /\ reqs[s].pc = "done" /\ reqs[s].status = 200
        /\ reqs[s].user = reqs[t].user /\ reqs[s].password = reqs[t].password
        /\ users[reqs[t].user].lastLoginAt # Null

\* C15: a reset token is used once: a resetPassword that succeeds clears
\* resetToken and resetTokenExpiry of its user, a resetPassword that looks
\* the token up after another has succeeded with it is answered 400, and a
\* forgotPassword stores a token never stored before in place of the
\* earlier one, which a resetPassword no longer accepts.
C15_ResetTokenSingleUse ==
    [][\A s \in Slots :
          /\ ResetUpdate(s) =>
                /\ users'[reqs[s].user].resetToken = Null
                /\ users'[reqs[s].user].resetTokenExpiry = Null
          /\ ResetLookup(s) =>
                /\ (\E t \in Slots :
                       /\ reqs[t].op = "resetPassword" /\ reqs[t].pc = "done"
                       /\ reqs[t].status = 200 /\ reqs[t].token = reqs[s].token)
                   => reqs'[s].pc = "done" /\ reqs'[s].status = 400
                /\ (\A i \in DOMAIN users : users[i].resetToken # reqs[s].token)
                   => reqs'[s].pc = "done" /\ reqs'[s].status = 400
          /\ (/\ reqs[s].op = "forgotPassword" /\ reqs[s].pc = "update"
              /\ reqs'[s] # reqs[s])
             => LET u == reqs[s].user IN
                /\ users'[u].resetToken = reqs'[s].body.resetToken
                /\ \A i \in DOMAIN users : users[i].resetToken # users'[u].resetToken
                /\ users[u].resetToken # Null
                     => \A i \in DOMAIN users : users'[i].resetToken # users[u].resetToken]_vars

\* a reset has succeeded with a token and a second reset with the same token,
\* looked up after it, has been answered 400
C15_Witness ==
    \E s, t \in Slots :
        /\ s # t
        /\ reqs[t].op = "resetPassword" /\ reqs[t].pc = "done" /\ reqs[t].status = 200
        /\ reqs[s].op = "resetPassword" /\ reqs[s].pc = "done" /\ reqs[s].status = 400
        /\ reqs[s].token = reqs[t].token /\ ~reqs[s].knownAtLookup

\* C16: a revokeToken call with a token that has no row is answered 404 and
\* changes no row; one with a stored token is answered 200 and leaves that
\* row, and no other, with revokedAt set and reasonRevoked = "Revoked by
\* user".
C16_RevokeToken ==
    [][\A s \in Slots :
          (/\ reqs[s].op = "revokeToken" /\ reqs[s].pc \notin {"idle", "done"}
           /\ reqs'[s] # reqs[s])
          => /\ users' = users
             /\ IF reqs[s].pc = "findUnique"
                THEN /\ refreshTokens' = refreshTokens
                     /\ IF \E i \in DOMAIN refreshTokens :
                              refreshTokens[i].token = reqs[s].token
                        THEN reqs'[s].pc = "update"
                        ELSE /\ reqs'[s].pc = "done" /\ reqs'[s].status = 404
                             /\ reqs'[s].writes = 0
                ELSE /\ reqs'[s].pc = "done" /\ reqs'[s].status = 200
                     /\ DOMAIN refreshTokens' = DOMAIN refreshTokens
                     /\ \A i \in DOMAIN refreshTokens :
                           IF refreshTokens[i].token = reqs[s].token
                           THEN /\ refreshTokens'[i].revokedAt # Null
                                /\ refreshTokens'[i].reasonRevoked = "Revoked by user"
                           ELSE refreshTokens'[i] = refreshTokens[i]]_vars

\* a revokeToken with a stored token has been answered 200, the row is
\* revoked by user, and one with a token never issued has been answered 404
C16_Witness ==
    \E s1, s2 \in Slots :
        /\ reqs[s1].op = "revokeToken" /\ reqs[s1].pc = "done" /\ reqs[s1].status = 200
        /\ \E i \in DOMAIN refreshTokens :
              /\ refreshTokens[i].token = reqs[s1].token
              /\ refreshTokens[i].revokedAt # Null
              /\ refreshTokens[i].reasonRevoked = "Revoked by user"
        /\ reqs[s2].op = "revokeToken" /\ reqs[s2].pc = "done" /\ reqs[s2].status = 404

\* C17: POST /auth/revoke-token requires bearer authentication: a request
\* that carries no valid access token is answered 401 before the handler
\* runs and revokes nothing.
C17_RevokeRequiresBearer ==
    \A s \in Slots :
        (reqs[s].op = "revokeToken" /\ reqs[s].route \in Routers /\ ~reqs[s].authorized)
        => /\ reqs[s].pc = "done" /\ reqs[s].status = 401
           /\ ~reqs[s].handlerRan /\ reqs[s].writes = 0

\* C18: getTasks answers with tasks of the caller only (all of them when the
\* query has no filter), and getTask(id), for a number id, answers 404
\* without a task when no task has the id or the task is another user's,
\* and otherwise with a task of the caller.
C18_TaskIsolation ==
    [][\A s \in Slots :
          /\ (reqs[s].op = "getTasks" /\ reqs[s].pc = "findMany" /\ reqs'[s] # reqs[s])
             => LET data == reqs'[s].body.data IN
                /\ reqs'[s].status = 200
                /\ \A k \in DOMAIN data :
                      data[k].userId = reqs[s].caller /\ tasks[data[k].id] = data[k]
                /\ reqs[s].params = [status |-> "", search |-> ""]
                     => {data[k].id : k \in DOMAIN data}
                        = {i \in DOMAIN tasks : tasks[i].userId = reqs[s].caller}
          /\ (/\ reqs[s].op = "getTask" /\ reqs[s].pc = "findFirst" /\ reqs'[s] # reqs[s]
              /\ ~parseInt(reqs[s].params.id).nan)
             => IF \E i \in DOMAIN tasks :
                      /\ tasks[i].id = parseInt(reqs[s].params.id).n
                      /\ tasks[i].userId = reqs[s].caller
                THEN /\ reqs'[s].status = 200
                     /\ reqs'[s].body.data.userId = reqs[s].caller
                     /\ reqs'[s].body.data.id = parseInt(reqs[s].params.id).n
                ELSE /\ reqs'[s].status = 404
                     /\ "data" \notin DOMAIN reqs'[s].body]_vars

\* a getTasks has been answered with the caller's tasks while another
\* user has a task
C18_Witness ==
    \E s \in Slots :
        /\ reqs[s].op = "getTasks" /\ reqs[s].pc = "done" /\ reqs[s].status = 200
        /\ Len(reqs[s].body.data) > 0
        /\ \E i \in DOMAIN tasks : tasks[i].userId # reqs[s].caller

\* a getTask for the id of another user's task has been answered 404
C18_WitnessForeign ==
    \E s \in Slots :
        /\ reqs[s].op = "getTask" /\ reqs[s].pc = "done" /\ reqs[s].status = 404
        /\ \E i \in DOMAIN tasks :
              /\ tasks[i].id = parseInt(reqs[s].params.id).n
              /\ tasks[i].userId # reqs[s].caller

\* C19: a request that reaches the validation layer with a body that
\* violates the schema of its operation (createTask without a title or with
\* a status outside pending, in_progress, completed; register without a
\* required field or with an age outside 13..120) is answered 400 there:
\* the handler is not entered and nothing is written.
C19_InvalidBodyRejected ==
    \A s \in Slots :
        LET body == reqs[s].params IN
        /\ (/\ reqs[s].op = "createTask" /\ reqs[s].authorized
            /\ \/ "title" \notin DOMAIN body
               \/ /\ "status" \in DOMAIN body
                  /\ body.status.v \notin {"pending", "in_progress", "completed"})
           => /\ reqs[s].pc = "done" /\ reqs[s].status = 400
              /\ ~reqs[s].handlerRan /\ reqs[s].writes = 0
        /\ (/\ reqs[s].op = "register" /\ reqs[s].route = "routes/authRoutes"
            /\ \/ {"email", "password", "firstName", "lastName", "age", "gender"}
                      \ DOMAIN body # {}
               \/ "age" \in DOMAIN body /\ body.age.n \notin 13..120)
           => /\ reqs[s].pc = "done" /\ reqs[s].status = 400
              /\ ~reqs[s].handlerRan /\ reqs[s].writes = 0

\* an authenticated createTask without a title and a register without
\* firstName have been answered 400
C19_Witness ==
    \E s1, s2 \in Slots :
        /\ reqs[s1].op = "createTask" /\ reqs[s1].authorized
        /\ "title" \notin DOMAIN reqs[s1].params /\ reqs[s1].status = 400
        /\ reqs[s2].op = "register" /\ reqs[s2].route = "routes/authRoutes"
        /\ "firstName" \notin DOMAIN reqs[s2].params /\ reqs[s2].status = 400

\* C20: with N items, listItems for page >= 1 and limit >= 1 answers with
\* the records (page-1)*limit+1 .. min(page*limit, N) in table order,
\* total = N and totalPages = ceil(N/limit); so limit=10, page=2 over 25
\* records gives records 11..20 and totalPages = 3.
C20_ListItemsPage ==
    \A s \in Slots, page \in 1..MaxPage, limit \in {3, 10} :
        (/\ reqs[s].op = "listItems" /\ reqs[s].pc = "done"
         /\ reqs[s].params = [page |-> Decimal(page), limit |-> Decimal(limit)])
        => LET N == Len(items)
               first == (page - 1) * limit + 1
               last == IF page * limit < N THEN page * limit ELSE N
               body == reqs[s].body IN
           /\ reqs[s].status = 200
           /\ Len(body.items) = (IF last >= first THEN last - first + 1 ELSE 0)
           /\ \A k \in DOMAIN body.items : body.items[k].id = first + k - 1
           /\ body.pagination.total = N
           /\ body.pagination.totalPages * limit >= N
           /\ (body.pagination.totalPages - 1) * limit < N
           /\ (page = 2 /\ limit = 10 /\ N = 25)
                => /\ [k \in DOMAIN body.items |-> body.items[k].id] = [k \in 1..10 |-> 10 + k]
                   /\ body.pagination.totalPages = 3

\* limit=10, page=2 over 25 records has been answered
C20_Witness ==
    \E s \in Slots :
        /\ reqs[s].op = "listItems" /\ reqs[s].pc = "done" /\ reqs[s].status = 200
        /\ reqs[s].params = [page |-> <<"2">>, limit |-> <<"1", "0">>]
        /\ Len(items) = 25
        /\ Len(reqs[s].body.items) = 10

\* the routers that mount authenticateToken before their handlers
GuardedRoutes == {"tasks", "routes/auth"}

\* C21: a request to a route behind authenticateToken whose Authorization
\* header is missing, is not "Bearer <token>", or carries a token that is
\* malformed, signed with another key or expired, is answered 401, and the
\* handler of the route is never entered (it makes no database write).
C21_Unauthenticated401 ==
    \A s \in Slots :
        LET r == reqs[s] IN
        (r.route \in GuardedRoutes /\ ~r.authorized) =>
            /\ r.pc = "done" /\ r.status = 401
            /\ r.body \in {[error |-> "No token provided"], [error |-> "Invalid token"]}
            /\ ~r.handlerRan /\ r.writes = 0 /\ r.caller = 0

\* one request without a Bearer header and one with an expired token of the
\* server have both been turned away
C21_Witness ==
    \E s, t \in Slots :
        /\ reqs[s].route = "tasks" /\ reqs[s].header.scheme # "Bearer"
        /\ reqs[s].status = 401 /\ ~reqs[s].handlerRan
        /\ reqs[t].route = "tasks" /\ reqs[t].header.scheme = "Bearer"
        /\ reqs[t].header.token.key = jwtKey /\ now >= reqs[t].header.token.exp
        /\ reqs[t].status = 401 /\ ~reqs[t].handlerRan

\* a step in which a request arrives with the access token of a response
C22_Step ==
    \A d, s \in Slots :
        (/\ IssuesTokens(d)
         /\ Free(s) /\ reqs'[s] # reqs[s]
         /\ reqs'[s].route \in GuardedRoutes
         /\ reqs'[s].header = Bearer(ReturnedAccessToken(d))
         /\ now < ReturnedAccessToken(d).exp)
        => /\ reqs'[s].handlerRan /\ reqs'[s].status # 401
           /\ reqs'[s].caller = ReturnedFor(d)
           /\ \E i \in DOMAIN users : users[i].id = ReturnedFor(d)

\* C22: when a register, login or refreshToken call has answered with an
\* access token for user U and a request to a guarded route arrives with
\* "Authorization: Bearer <that token>" before the token expires,
\* authenticateToken lets it through and the handler runs with
\* req.user.id = U's id.
C22_AccessTokenRoundTrip == [][C22_Step]_vars

\* GET /tasks has answered 200 to the bearer of an access token that a
\* login returned after the clock had moved
C22_Witness ==
    \E s \in Slots :
        /\ reqs[s].op = "getTasks" /\ reqs[s].status = 200
        /\ reqs[s].header.scheme = "Bearer"
        /\ reqs[s].header.token.exp > accessTokenExpiry
        /\ reqs[s].caller = reqs[s].header.token.id

\* C23: with NODE_ENV = "production", no response of status 500, from a
\* handler's catch block or from an error middleware, carries the message
\* or the stack of the error that caused it.
C23_ProductionHidesErrors ==
    \A s \in Slots :
        LET r == reqs[s] IN
        (env = "production" /\ r.status = 500 /\ r.thrown # NoError) =>
            /\ r.thrown.message \notin ResponseTexts(r)
            /\ r.thrown.stack \notin ResponseTexts(r)

\* what does hold: the error middleware never answers the message or the
\* stack in production
C23_MiddlewareHidesErrors ==
    \A s \in Slots :
        LET r == reqs[s] IN
        (env = "production" /\ r.status = 500 /\ r.op = "error") =>
            /\ r.thrown.message \notin ResponseTexts(r)
            /\ r.thrown.stack \notin ResponseTexts(r)

\* the password of a register or reset-password request, and the answer
\* that refuses it
PasswordOf(r) ==
    IF r.op = "register" THEN r.params.password.v ELSE r.params.newPassword.v

RefusedOnPassword(r) ==
    /\ r.status = 400 /\ "errors" \in DOMAIN r.body
    /\ \/ r.body.message = "Password validation failed"
       \/ r.body.errors \cap {"password", "newPassword"} # {}

\* C24: on POST /register and POST /reset-password a password that meets
\* every documented rule (8 characters, an uppercase letter, a lowercase
\* letter, a digit, a character of !@#$%^&*(),.?":{}|<>) is never refused
\* on password grounds, and one that breaks a rule is answered 400 without
\* a user being created or changed.
C24_PasswordRule ==
    \A s \in Slots :
        LET r == reqs[s] IN
        (r.op \in {"register", "resetPassword"} /\ r.route = "routes/authRoutes") =>
            IF validatePassword(Chars[PasswordOf(r)]).isValid
            THEN ~RefusedOnPassword(r)
            ELSE RefusedOnPassword(r) /\ r.writes = 0

\* a step that leaves every revoked row as it was
C25_Step ==
    \A i \in DOMAIN refreshTokens :
        refreshTokens[i].revokedAt # Null =>
            /\ refreshTokens'[i].revokedAt = refreshTokens[i].revokedAt
            /\ refreshTokens'[i].reasonRevoked = refreshTokens[i].reasonRevoked
            /\ refreshTokens'[i].replacedByToken = refreshTokens[i].replacedByToken

\* C25: the only transition of a RefreshToken row is active -> revoked: no
\* step of a revoke or refresh call changes revokedAt, reasonRevoked or
\* replacedByToken of a row that is already revoked.
C25_RevokedRowFrozen == [][C25_Step]_vars

\* the owner of a stored token; a refresh that finds its row revoked is
\* answered 401 and writes nothing
OwnerOf(token) == refreshTokens[FindRefreshToken(token)].userId

C26_ReplayFrame ==
    [][\A s \in Slots :
          (/\ reqs[s].op = "refreshToken" /\ reqs'[s] # reqs[s]
           /\ reqs'[s].op = "refreshToken" /\ reqs'[s].revokedAtLookup)
          => /\ reqs'[s].pc = "done" /\ reqs'[s].status = 401
             /\ refreshTokens' = refreshTokens]_vars

C27_OtherSchemasExist == RouteSchemas \ {"aiSearch"} \subseteq DOMAIN schemas

\* C27: every schema name a route passes to validateRequest is a key of
\* schemas, so no authenticated request is answered 500 "Invalid validation
\* schema"; POST /items/search with a non-empty items array and a prompt
\* reaches aiSearch.
C27_RouteSchemasExist ==
    \A s \in Slots :
        LET r == reqs[s] IN
        (r.op = "aiSearch" /\ r.authorized) =>
            /\ ~(/\ r.status = 500 /\ "message" \in DOMAIN r.body
                 /\ r.body.message = "Invalid validation schema")
            /\ ("prompt" \in DOMAIN r.params /\ r.params.items.elements # {})
                  => r.handlerRan

\* C28: chain invariant: every RefreshToken row whose replacedByToken is set
\* is revoked, and its replacedByToken is the token of a row of the same
\* user.
C28_ChainInvariant ==
    \A i \in DOMAIN refreshTokens :
        refreshTokens[i].replacedByToken # Null =>
            /\ refreshTokens[i].revokedAt # Null
            /\ \E j \in DOMAIN refreshTokens :
                  /\ refreshTokens[j].token = refreshTokens[i].replacedByToken
                  /\ refreshTokens[j].userId = refreshTokens[i].userId

\* no row ever has a replacedByToken: the only statement that writes one is
\* the update of refreshToken, which no call reaches
C28_NeverReplaced ==
    \A i \in DOMAIN refreshTokens : refreshTokens[i].replacedByToken = Null

\* C29: a revokeToken call revokes a refresh token only when the token's
\* userId is the id of the authenticated caller: a call that has written
\* (through the router that authenticates) wrote a row of its caller.
C29_RevokeOwnTokenOnly ==
    \A s \in Slots :
        LET r == reqs[s] IN
        (r.op = "revokeToken" /\ r.route = "routes/auth" /\ r.writes > 0)
        => refreshTokens[r.row].userId = r.caller

====
